---- MODULE Spec2Model ----
(***************************************************************************)
(* Model of the retrieval knowledge base of the call-centre analytics      *)
(* repository: CallCenterRAG (src/src/rag_handler.py, driven by            *)
(* AWSCallCenterAgent in src/src/aws_agent.py) and UnifiedCallCenterAI     *)
(* (src/src/unified_ai_agent.py).  The variable impl says which of the two *)
(* classes the instance is.  Texts are TLA+ strings; substring search,     *)
(* lower-casing and joining are computed character by character.           *)
(* Fields no operation modelled here reads (timestamps, dates, durations,  *)
(* phone numbers, agent_performance_data) are left out of the records.     *)
(***************************************************************************)
EXTENDS Integers, Sequences, FiniteSets, TLC

VARIABLES
    impl,                   \* "rag" (CallCenterRAG) or "unified" (UnifiedCallCenterAI)
    ml_ready,               \* UnifiedCallCenterAI.ml_ready (TRUE for CallCenterRAG)
    kb_path,                \* the configured knowledge-base snapshot path
    conversation_index,     \* None, or the FAISS index
    conversation_metadata,  \* list of metadata records
    issue_patterns,         \* category -> list of issue-pattern records
    resolution_templates,   \* category -> list of resolution templates
    default_factory,        \* TRUE when both maps are defaultdict(list), FALSE when dict
    knowledge_base_loaded,  \* the agent's knowledge_base_loaded flag
    disk,                   \* file name -> file content
    input,                  \* the argument drawn for a pure-function specification
    call                    \* the last call: its name, injected fault, outcome

vars == <<impl, ml_ready, kb_path, conversation_index, conversation_metadata,
          issue_patterns, resolution_templates, default_factory,
          knowledge_base_loaded, disk, input, call>>

kbvars == <<impl, ml_ready, kb_path, conversation_index, conversation_metadata,
            issue_patterns, resolution_templates, default_factory,
            knowledge_base_loaded, disk>>

\* ------------------------------------------------------------------ bounds

\* Longest message list drawn as an input of the grouper.
MaxBatch == 3

\* Longest message list drawn as an input of the resolution detector.
MaxConv == 4

\* Longest text, in fragments, drawn as an input of the issue classifier.
MaxFrags == 2

\* Largest top_k drawn for find_similar_conversations.
MaxTopK == 6

\* Longest list of similar cases drawn as an input of _calculate_confidence.
MaxCases == 3

\* ------------------------------------------------------------ Python text

\* Python's None.
None == [kind |-> "None"]

Impls == {"rag", "unified"}

Range(s) == {s[i] : i \in 1..Len(s)}

\* str.lower(), one character.
LowerChar(c) ==
    CASE c = "A" -> "a" [] c = "B" -> "b" [] c = "C" -> "c" [] c = "D" -> "d"
      [] c = "E" -> "e" [] c = "F" -> "f" [] c = "G" -> "g" [] c = "H" -> "h"
      [] c = "I" -> "i" [] c = "J" -> "j" [] c = "K" -> "k" [] c = "L" -> "l"
      [] c = "M" -> "m" [] c = "N" -> "n" [] c = "O" -> "o" [] c = "P" -> "p"
      [] c = "Q" -> "q" [] c = "R" -> "r" [] c = "S" -> "s" [] c = "T" -> "t"
      [] c = "U" -> "u" [] c = "V" -> "v" [] c = "W" -> "w" [] c = "X" -> "x"
      [] c = "Y" -> "y" [] c = "Z" -> "z" [] OTHER -> c

\* str.lower().
RECURSIVE Lower(_)
Lower(s) ==
    IF Len(s) = 0 THEN ""
    ELSE LowerChar(SubSeq(s, 1, 1)) \o Lower(SubSeq(s, 2, Len(s)))

\* Python's `kw in text` on strings: kw is a substring of text.
Contains(kw, text) ==
    \E i \in 1..(Len(text) - Len(kw) + 1) : SubSeq(text, i, i + Len(kw) - 1) = kw

\* any(keyword in text for keyword in keywords).
AnyKeyword(keywords, text) ==
    \E i \in 1..Len(keywords) : Contains(keywords[i], text)

\* ' '.join(texts).
RECURSIVE Join(_)
Join(texts) ==
    IF Len(texts) = 0 THEN ""
    ELSE IF Len(texts) = 1 THEN texts[1]
    ELSE texts[1] \o " " \o Join(Tail(texts))

\* [f(x) for x in s].
MapSeq(s, F(_)) == [i \in 1..Len(s) |-> F(s[i])]

\* s[-n:].
LastN(s, n) == IF Len(s) <= n THEN s ELSE SubSeq(s, Len(s) - n + 1, Len(s))

\* s[:n].
FirstN(s, n) == IF Len(s) <= n THEN s ELSE SubSeq(s, 1, n)

TextOf(msg) == msg.text

\* ------------------------------------------------------ resolution detector

\* CallCenterRAG._detect_resolution: resolution_indicators.
Rag_resolution_indicators ==
    <<"resolved", "fixed", "sorted", "done", "complete",
      "thank you", "thanks", "perfect", "great", "excellent">>

\* UnifiedCallCenterAI._detect_resolution: resolution_indicators.
Uni_resolution_indicators ==
    <<"thank you", "thanks", "resolved", "fixed", "sorted",
      "perfect", "great", "excellent", "helped">>

\* ' '.join([msg['text'].lower() for msg in messages[-3:]]).
LastMessagesText(messages) ==
    Join([i \in 1..Len(LastN(messages, 3)) |-> Lower(LastN(messages, 3)[i].text)])

\* CallCenterRAG._detect_resolution.
Rag_detect_resolution(messages) ==
    AnyKeyword(Rag_resolution_indicators, LastMessagesText(messages))

\* UnifiedCallCenterAI._detect_resolution.
Uni_detect_resolution(messages) ==
    IF Len(messages) < 2 THEN FALSE
    ELSE AnyKeyword(Uni_resolution_indicators, LastMessagesText(messages))

DetectResolution(cls, messages) ==
    IF cls = "rag" THEN Rag_detect_resolution(messages)
    ELSE Uni_detect_resolution(messages)

\* --------------------------------------------------------- issue classifier

\* CallCenterRAG._extract_issue_patterns: issue_categories, in dict order.
Rag_issue_categories ==
    << [name |-> "billing",
        keywords |-> <<"bill", "charge", "payment", "cost", "price", "fee">>],
       [name |-> "technical",
        keywords |-> <<"not working", "broken", "issue", "problem", "error", "bug">>],
       [name |-> "account",
        keywords |-> <<"account", "login", "password", "access", "profile">>],
       [name |-> "service",
        keywords |-> <<"cancel", "upgrade", "downgrade", "change", "plan">>],
       [name |-> "roaming",
        keywords |-> <<"roaming", "overseas", "international", "abroad">>],
       [name |-> "data",
        keywords |-> <<"data", "internet", "wifi", "connection", "slow">>] >>

\* CallCenterRAG._extract_resolution_templates: the inline category table.
Rag_template_categories ==
    << [name |-> "billing", keywords |-> <<"bill", "charge", "payment">>],
       [name |-> "technical", keywords |-> <<"not working", "broken", "issue">>],
       [name |-> "account", keywords |-> <<"account", "login", "password">>],
       [name |-> "service", keywords |-> <<"cancel", "upgrade", "plan">>] >>

\* UnifiedCallCenterAI._detect_issue_category: categories, in dict order.
Uni_categories ==
    << [name |-> "billing",
        keywords |-> <<"bill", "charge", "payment", "cost", "fee">>],
       [name |-> "technical",
        keywords |-> <<"not working", "broken", "problem", "error">>],
       [name |-> "account",
        keywords |-> <<"account", "login", "password", "access">>],
       [name |-> "service",
        keywords |-> <<"cancel", "upgrade", "plan", "change">>],
       [name |-> "roaming",
        keywords |-> <<"roaming", "overseas", "international">>],
       [name |-> "data",
        keywords |-> <<"data", "internet", "wifi", "slow">>] >>

\* for category, keywords in table.items(): if any(...): <take category>; else 'other'.
RECURSIVE FirstMatch(_, _, _)
FirstMatch(table, text_lower, i) ==
    IF i > Len(table) THEN "other"
    ELSE IF AnyKeyword(table[i].keywords, text_lower) THEN table[i].name
    ELSE FirstMatch(table, text_lower, i + 1)

\* CallCenterRAG._extract_issue_patterns: the category of a first customer message.
Rag_issue_category(text) == FirstMatch(Rag_issue_categories, Lower(text), 1)

\* CallCenterRAG._extract_resolution_templates: the category of a template.
Rag_template_category(text) == FirstMatch(Rag_template_categories, Lower(text), 1)

\* _detect_issue_category with technical tested before billing.
Uni_detect_issue_category_TechnicalFirst(text) ==
    FirstMatch(<<Uni_categories[2], Uni_categories[1]>> \o SubSeq(Uni_categories, 3, 6),
               Lower(text), 1)

\* UnifiedCallCenterAI._detect_issue_category.
Uni_detect_issue_category(text) == FirstMatch(Uni_categories, Lower(text), 1)

CategoryTable(cls) == IF cls = "rag" THEN Rag_issue_categories ELSE Uni_categories

DetectIssueCategory(cls, text) ==
    IF cls = "rag" THEN Rag_issue_category(text) ELSE Uni_detect_issue_category(text)

\* ------------------------------------------------------ conversation grouper

\* The keys of a chat record that _group_conversations reads with message[...].
RequiredKeys(cls) ==
    IF cls = "rag" THEN {"contact_id", "chat_text", "chat_user_type", "message_number"}
    ELSE {"contact_id", "chat_text", "chat_user_type"}

\* The defaultdict's default value, under its key.
NewConversation(contact_id) ==
    [contact_id |-> contact_id, messages |-> <<>>, customer_messages |-> <<>>,
     agent_messages |-> <<>>, resolved |-> FALSE]

\* The dict appended to conv['messages'].
MessageEntry(cls, message) ==
    IF cls = "rag"
    THEN [text |-> message.chat_text, user_type |-> message.chat_user_type,
          message_number |-> message.message_number]
    ELSE [text |-> message.chat_text, user_type |-> message.chat_user_type]

\* The position of contact_id among the conversations (dict insertion order), or 0.
IndexOf(conversations, contact_id) ==
    IF \E i \in 1..Len(conversations) : conversations[i].contact_id = contact_id
    THEN CHOOSE i \in 1..Len(conversations) : conversations[i].contact_id = contact_id
    ELSE 0

\* AddMessage without the test of chat_user_type before the agent list.
AddMessage_NoSpeakerTest(cls, conversations, message) ==
    LET found == IndexOf(conversations, message.contact_id)
        convs == IF found = 0
                 THEN Append(conversations, NewConversation(message.contact_id))
                 ELSE conversations
        k     == IF found = 0 THEN Len(convs) ELSE found
    IN  [convs EXCEPT
            ![k].messages = Append(@, MessageEntry(cls, message)),
            ![k].customer_messages =
                IF message.chat_user_type = "customer"
                THEN Append(@, message.chat_text) ELSE @,
            ![k].agent_messages = Append(@, message.chat_text)]

\* One pass of `for message in chat_data`.
AddMessage(cls, conversations, message) ==
    LET found == IndexOf(conversations, message.contact_id)
        convs == IF found = 0
                 THEN Append(conversations, NewConversation(message.contact_id))
                 ELSE conversations
        k     == IF found = 0 THEN Len(convs) ELSE found
    IN  [convs EXCEPT
            ![k].messages = Append(@, MessageEntry(cls, message)),
            ![k].customer_messages =
                IF message.chat_user_type = "customer"
                THEN Append(@, message.chat_text) ELSE @,
            ![k].agent_messages =
                IF message.chat_user_type = "customer"
                THEN @ ELSE Append(@, message.chat_text)]

RECURSIVE GroupLoop(_, _, _)
GroupLoop(cls, chat_data, conversations) ==
    IF Len(chat_data) = 0 THEN conversations
    ELSE GroupLoop(cls, Tail(chat_data), AddMessage(cls, conversations, Head(chat_data)))

\* The second loop: conv['resolved'] = self._detect_resolution(conv['messages']).
MarkResolved(cls, conversations) ==
    [i \in 1..Len(conversations) |->
        [conversations[i] EXCEPT !.resolved = DetectResolution(cls, conversations[i].messages)]]

\* _group_conversations of either class: the conversations in dict order, or the
\* KeyError of the first record that lacks a key the loop reads.
GroupConversations(cls, chat_data) ==
    IF \E i \in 1..Len(chat_data) : ~(RequiredKeys(cls) \subseteq DOMAIN chat_data[i])
    THEN [raised |-> TRUE, value |-> None]
    ELSE [raised |-> FALSE, value |-> MarkResolved(cls, GroupLoop(cls, chat_data, <<>>))]

\* -------------------------------------------------------------- the instance

\* str.replace(old, new).
RECURSIVE Replace(_, _, _)
Replace(s, old, new) ==
    IF Len(s) < Len(old) THEN s
    ELSE IF SubSeq(s, 1, Len(old)) = old
         THEN new \o Replace(SubSeq(s, Len(old) + 1, Len(s)), old, new)
         ELSE SubSeq(s, 1, 1) \o Replace(SubSeq(s, 2, Len(s)), old, new)

\* index_path = file_path.replace('.pkl', '_index.faiss').
IndexPath(file_path) == Replace(file_path, ".pkl", "_index.faiss")

\* The path both initialize_knowledge_base methods default to.
DefaultKbPath == "data/knowledge_base.pkl"

\* A configured rag.knowledge_base_path that does not end in .pkl.
Paths == {DefaultKbPath, "data/knowledge_base"}

\* IndexPath, computed once for each configured path.
IndexPathOf == [p \in Paths |-> IndexPath(p)]

Files == Paths \cup {IndexPathOf[p] : p \in Paths}

Absent == [kind |-> "absent"]

NoCall == [op |-> "none", fault |-> "none", raised |-> FALSE, value |-> None]

\* __init__ of either class: the knowledge base storage, and the agent's flag.
InstanceInit ==
    /\ conversation_index = None
    /\ conversation_metadata = <<>>
    /\ issue_patterns = <<>>
    /\ resolution_templates = <<>>
    /\ default_factory = FALSE
    /\ knowledge_base_loaded = FALSE

\* -------------------------------------------------------- pattern extractor

\* AppendTo putting the record first in its category.
AppendTo_Prepend(d, key, record) ==
    IF key \in DOMAIN d THEN [d EXCEPT ![key] = <<record>> \o @]
    ELSE d @@ (key :> <<record>>)

\* dict[key].append(record) on a defaultdict(list).
AppendTo(d, key, record) ==
    IF key \in DOMAIN d THEN [d EXCEPT ![key] = Append(@, record)]
    ELSE d @@ (key :> <<record>>)

\* The record appended to issue_patterns[category].
IssuePattern(conv) ==
    [contact_id |-> conv.contact_id,
     issue_text |-> Lower(conv.customer_messages[1]),
     resolved |-> conv.resolved]

\* CallCenterRAG._extract_issue_patterns: the loop over conversations.items().
RECURSIVE Rag_extract_issue_patterns(_, _)
Rag_extract_issue_patterns(conversations, patterns) ==
    IF Len(conversations) = 0 THEN patterns
    ELSE LET conv == Head(conversations)
         IN  Rag_extract_issue_patterns(Tail(conversations),
                IF Len(conv.customer_messages) > 0
                THEN AppendTo(patterns, Rag_issue_category(conv.customer_messages[1]),
                              IssuePattern(conv))
                ELSE patterns)

Rag_action_indicators == <<"let me", "i will", "i can", "processed", "updated", "fixed">>

Uni_action_indicators == <<"fixed", "resolved", "updated", "processed">>

\* [msg for msg in agent_messages if any(indicator in msg.lower() ...)].
ResolutionSteps(indicators, agent_messages) ==
    SelectSeq(agent_messages, LAMBDA msg : AnyKeyword(indicators, Lower(msg)))

\* CallCenterRAG._extract_resolution_templates: the loop over conversations.items().
RECURSIVE Rag_extract_resolution_templates(_, _)
Rag_extract_resolution_templates(conversations, templates) ==
    IF Len(conversations) = 0 THEN templates
    ELSE LET conv == Head(conversations)
             issue_category ==
                 IF Len(conv.customer_messages) > 0
                 THEN Rag_template_category(conv.customer_messages[1])
                 ELSE "other"
             steps == ResolutionSteps(Rag_action_indicators, conv.agent_messages)
         IN  Rag_extract_resolution_templates(Tail(conversations),
                IF conv.resolved /\ Len(conv.agent_messages) > 0 /\ Len(steps) > 0
                THEN AppendTo(templates, issue_category,
                              [contact_id |-> conv.contact_id, steps |-> steps])
                ELSE templates)

\* UnifiedCallCenterAI._extract_patterns: the loop, on the pair of both maps.
RECURSIVE Uni_extract_patterns(_, _)
Uni_extract_patterns(conversations, maps) ==
    IF Len(conversations) = 0 THEN maps
    ELSE LET conv == Head(conversations)
             first_message == Lower(conv.customer_messages[1])
             category == Uni_detect_issue_category(first_message)
             steps == ResolutionSteps(Uni_action_indicators, conv.agent_messages)
         IN  Uni_extract_patterns(Tail(conversations),
                IF Len(conv.customer_messages) = 0 THEN maps
                ELSE [issue_patterns |->
                        AppendTo(maps.issue_patterns, category, IssuePattern(conv)),
                      resolution_templates |->
                        IF conv.resolved /\ Len(conv.agent_messages) > 0 /\ Len(steps) > 0
                        THEN AppendTo(maps.resolution_templates, category,
                                      [contact_id |-> conv.contact_id, steps |-> steps])
                        ELSE maps.resolution_templates])

\* Both maps as process_chat_data leaves them after the extraction calls.
ExtractPatterns(cls, conversations) ==
    IF cls = "rag"
    THEN [issue_patterns |-> Rag_extract_issue_patterns(conversations, <<>>),
          resolution_templates |-> Rag_extract_resolution_templates(conversations, <<>>)]
    ELSE Uni_extract_patterns(conversations,
            [issue_patterns |-> <<>>, resolution_templates |-> <<>>])

\* ----------------------------------------------------------- semantic index

\* f"Customer: {' '.join(customer_messages[:3])} Agent: {' '.join(agent_messages[:3])}".
SummaryText(customer_messages, agent_messages) ==
    "Customer: " \o Join(FirstN(customer_messages, 3))
        \o " Agent: " \o Join(FirstN(agent_messages, 3))

\* embedding_model.encode: a fixed function of the text, into two dimensions.
Embed(text) ==
    CASE Len(text) % 4 = 0 -> <<3, 4>>
      [] Len(text) % 4 = 1 -> <<20, 0>>
      [] Len(text) % 4 = 2 -> <<0, 5>>
      [] OTHER -> <<16, 12>>

ISqrt(n) == CHOOSE r \in 0..n : r * r <= n /\ (r + 1) * (r + 1) > n

\* faiss.normalize_L2, in fixed point: the unit length is 10.
NormalizeL2(v) ==
    LET norm == ISqrt(v[1] * v[1] + v[2] * v[2])
    IN  IF norm = 0 THEN v ELSE <<(v[1] * 10) \div norm, (v[2] * 10) \div norm>>

\* The row the index holds for a summary text.
IndexRow(summary_text) == NormalizeL2(Embed(summary_text))

\* A faiss.IndexFlatIP holding the given rows.
IndexFlatIP(rows) == [kind |-> "IndexFlatIP", rows |-> rows]

\* The metadata record of one conversation.
Metadata(conv) ==
    [contact_id |-> conv.contact_id, resolved |-> conv.resolved,
     full_conversation |-> conv.messages]

\* The knowledge base storage of an instance, as one value.
KnowledgeBase(index, metadata, patterns, templates, factory) ==
    [conversation_index |-> index, conversation_metadata |-> metadata,
     issue_patterns |-> patterns, resolution_templates |-> templates,
     default_factory |-> factory]

\* What a call leaves: the storage, whether it raised, and the fault that struck.
Outcome(kb, raised, fault) == [kb |-> kb, raised |-> raised, fault |-> fault]

\* _build_conversation_index, first half: the rows and the metadata list computed
\* from the conversations, in dict order.
IndexContents(conversations) ==
    [rows |-> [i \in 1..Len(conversations) |->
                  IndexRow(SummaryText(conversations[i].customer_messages,
                                       conversations[i].agent_messages))],
     metadata |-> [i \in 1..Len(conversations) |-> Metadata(conversations[i])]]

\* _build_conversation_index of either class, given the contents it computes.
\* fault "encode": encode (or reading the dimension) raises; fault "add":
\* normalize_L2 or add raises, after the new IndexFlatIP has been assigned.
\* CallCenterRAG re-raises, UnifiedCallCenterAI logs.
BuildConversationIndex(cls, ml, kb, contents, fault) ==
    IF cls = "unified" /\ ~ml THEN Outcome(kb, FALSE, "none")
    ELSE IF fault = "encode" THEN Outcome(kb, cls = "rag", "encode")
    ELSE IF fault = "add"
         THEN Outcome([kb EXCEPT !.conversation_index = IndexFlatIP(<<>>)],
                      cls = "rag", "add")
    ELSE Outcome([kb EXCEPT !.conversation_index = IndexFlatIP(contents.rows),
                            !.conversation_metadata = contents.metadata], FALSE, "none")

\* What process_chat_data computes from a chat data file, before it stores any of
\* it: the grouping (or its KeyError), both pattern maps, the index contents.
Ingested(cls, chat_data) ==
    LET grouped == GroupConversations(cls, chat_data)
    IN  IF grouped.raised THEN [raised |-> TRUE]
        ELSE [raised |-> FALSE,
              conversations |-> grouped.value,
              maps |-> ExtractPatterns(cls, grouped.value),
              contents |-> IndexContents(grouped.value)]

\* process_chat_data of either class, given what it computes from the file.
\* fault "read": opening or parsing the chat data file raises.
ProcessChatData(cls, ml, kb, ingested, fault) ==
    IF cls = "unified" /\ ~ml THEN Outcome(kb, FALSE, "none")
    ELSE IF fault = "read" THEN Outcome(kb, TRUE, "read")
    ELSE IF ingested.raised THEN Outcome(kb, TRUE, "none")
    ELSE BuildConversationIndex(cls, ml,
            [kb EXCEPT !.issue_patterns = ingested.maps.issue_patterns,
                       !.resolution_templates = ingested.maps.resolution_templates,
                       !.default_factory = TRUE],
            ingested.contents, fault)

\* ------------------------------------------------------ knowledge base store

\* pickle.dump(knowledge_base, f).
Pickle(kb) ==
    [kind |-> "pickle", issue_patterns |-> kb.issue_patterns,
     resolution_templates |-> kb.resolution_templates,
     conversation_metadata |-> kb.conversation_metadata]

\* faiss.write_index(index, index_path).
Faiss(index) == [kind |-> "faiss", rows |-> index.rows]

\* A file that open(file_path, 'wb') truncated and pickle.dump did not finish.
Truncated == [kind |-> "truncated"]

\* What save_knowledge_base leaves on disk, and whether it raised.
Saved(dsk, raised, fault) == [disk |-> dsk, raised |-> raised, fault |-> fault]

\* save_knowledge_base of either class.  fault "dump": pickle.dump raises.
\* CallCenterRAG re-raises, UnifiedCallCenterAI logs.
SaveKnowledgeBase(cls, kb, dsk, file_path, fault) ==
    IF fault = "dump"
    THEN Saved([dsk EXCEPT ![file_path] = Truncated], cls = "rag", "dump")
    ELSE LET pickled == [dsk EXCEPT ![file_path] = Pickle(kb)]
         IN  IF kb.conversation_index # None
             THEN Saved([pickled EXCEPT ![IndexPathOf[file_path]] =
                            Faiss(kb.conversation_index)], FALSE, "none")
             ELSE Saved(pickled, FALSE, "none")

\* load_knowledge_base of either class.  fault "read": reading the snapshot raises.
\* CallCenterRAG re-raises, UnifiedCallCenterAI logs.
LoadKnowledgeBase(cls, ml, kb, dsk, file_path, fault) ==
    LET file == dsk[file_path]
        index_file == dsk[IndexPathOf[file_path]]
        loaded == [kb EXCEPT !.issue_patterns = file.issue_patterns,
                             !.resolution_templates = file.resolution_templates,
                             !.default_factory = TRUE,
                             !.conversation_metadata = file.conversation_metadata]
    IN  IF file.kind = "absent" THEN Outcome(kb, cls = "rag", "none")
        ELSE IF fault = "read" THEN Outcome(kb, cls = "rag", "read")
        ELSE IF file.kind # "pickle" THEN Outcome(kb, cls = "rag", "none")
        ELSE IF index_file.kind # "absent" /\ (cls = "rag" \/ ml)
             THEN IF index_file.kind = "faiss"
                  THEN Outcome([loaded EXCEPT !.conversation_index = IndexFlatIP(index_file.rows)],
                               FALSE, "none")
                  ELSE Outcome(loaded, cls = "rag", "none")
        ELSE Outcome(loaded, FALSE, "none")

\* What initialize_knowledge_base leaves: storage, disk, outcome, and the flag.
Initialized(kb, dsk, raised, fault, flag) ==
    [kb |-> kb, disk |-> dsk, raised |-> raised, fault |-> fault, flag |-> flag]

\* initialize_knowledge_base of AWSCallCenterAgent (on its CallCenterRAG) and of
\* UnifiedCallCenterAI: load the snapshot if its file exists, else build and save;
\* set knowledge_base_loaded unless a step raised.
InitializeKnowledgeBase(cls, ml, kb, dsk, flag, file_path, ingested, fault) ==
    IF dsk[file_path].kind # "absent"
    THEN LET l == LoadKnowledgeBase(cls, ml, kb, dsk, file_path, fault)
         IN  Initialized(l.kb, dsk, l.raised, l.fault, IF l.raised THEN flag ELSE TRUE)
    ELSE LET b == ProcessChatData(cls, ml, kb, ingested, fault)
             w == SaveKnowledgeBase(cls, b.kb, dsk, file_path, fault)
         IN  IF b.raised THEN Initialized(b.kb, dsk, TRUE, b.fault, flag)
             ELSE Initialized(b.kb, w.disk, w.raised,
                              IF b.fault # "none" THEN b.fault ELSE w.fault,
                              IF w.raised THEN flag ELSE TRUE)

\* ------------------------------------------------------------------ queries

\* A str argument or result that may also be None.
Str(text) == [kind |-> "str", text |-> text]

\* The truth value Python gives an Optional[str]: None and '' are false.
Truthy(x) == x # None /\ x.text # ""

\* The inner product IndexFlatIP scores a row with; both vectors have length 10,
\* so 100 stands for the score 1.0.
InnerProduct(u, v) == u[1] * v[1] + u[2] * v[2]

\* The order in which IndexFlatIP.search reports rows of equal score.  faiss does
\* not specify it and the code does not fix it: by insertion, or the reverse.
TieOrders == {"insertion", "reverse"}

\* conversation_index.search(query_embedding, top_k), without the -1 padding: the
\* top_k best rows (the earlier row is kept among equals), best first.
Search(index, query_row, top_k, ties) ==
    LET n == Len(index.rows)
        score(i) == InnerProduct(query_row, index.rows[i])
        Better(i, j) == score(i) > score(j) \/ (score(i) = score(j) /\ i < j)
        kept == {i \in 1..n : Cardinality({j \in 1..n : Better(j, i)}) < top_k}
        Before(i, j) ==
            \/ score(i) > score(j)
            \/ score(i) = score(j) /\ (IF ties = "insertion" THEN i < j ELSE i > j)
        place(i) == 1 + Cardinality({j \in kept : Before(j, i)})
    IN  [r \in 1..Cardinality(kept) |->
            LET i == CHOOSE i \in kept : place(i) = r
            IN  [idx |-> i, score |-> score(i)]]

\* result = conversation_metadata[idx].copy() with similarity_score (and, in
\* CallCenterRAG, rank) added.
SimilarResult(cls, meta, score, rank) ==
    IF cls = "rag"
    THEN [contact_id |-> meta.contact_id, resolved |-> meta.resolved,
          full_conversation |-> meta.full_conversation,
          similarity_score |-> score, rank |-> rank]
    ELSE [contact_id |-> meta.contact_id, resolved |-> meta.resolved,
          full_conversation |-> meta.full_conversation,
          similarity_score |-> score]

\* find_similar_conversations without its tests of the index: every metadata
\* entry is returned.
FindSimilarConversations_Unguarded(cls, ml, kb, query, top_k, ties) ==
    [r \in 1..Len(kb.conversation_metadata) |->
        SimilarResult(cls, kb.conversation_metadata[r], 0, r)]

\* find_similar_conversations of either class.  An idx beyond the metadata list
\* is an IndexError, which the method catches: it returns [].
FindSimilarConversations(cls, ml, kb, query, top_k, ties) ==
    IF (cls = "unified" /\ ~ml) \/ kb.conversation_index = None THEN <<>>
    ELSE LET hits == Search(kb.conversation_index, IndexRow(query), top_k, ties)
         IN  IF \E r \in 1..Len(hits) : hits[r].idx > Len(kb.conversation_metadata)
             THEN <<>>
             ELSE [r \in 1..Len(hits) |->
                      SimilarResult(cls, kb.conversation_metadata[hits[r].idx],
                                    hits[r].score, r)]

\* [msg['text'] for msg in conv['full_conversation'] if msg['user_type'] == 'agent'].
AgentResponses(conv) ==
    MapSeq(SelectSeq(conv.full_conversation, LAMBDA msg : msg.user_type = "agent"), TextOf)

\* The suggestion built from a resolution template.
TemplateSuggestion(cls, category, template) ==
    IF cls = "rag"
    THEN [type |-> "template", steps |-> template.steps,
          source |-> "resolution_templates"]
    ELSE [type |-> "template", category |-> category.text, steps |-> template.steps]

\* The suggestion built from a similar resolved conversation.
SimilarCaseSuggestion(cls, conv) ==
    IF cls = "rag"
    THEN [type |-> "similar_case", agent_responses |-> AgentResponses(conv),
          similarity_score |-> conv.similarity_score,
          source |-> "similar_conversations"]
    ELSE [type |-> "similar_case", similarity_score |-> conv.similarity_score,
          agent_responses |-> AgentResponses(conv)]

\* The template suggestions: of the first 3 templates of the category in
\* CallCenterRAG, of the first 2 in UnifiedCallCenterAI.
TemplateSuggestions(cls, kb, category) ==
    IF Truthy(category) /\ category.text \in DOMAIN kb.resolution_templates
    THEN LET templates == FirstN(kb.resolution_templates[category.text],
                                 IF cls = "rag" THEN 3 ELSE 2)
         IN  [i \in 1..Len(templates) |-> TemplateSuggestion(cls, category, templates[i])]
    ELSE <<>>

\* The similar-case suggestions without the test for agent messages.
SimilarCaseSuggestions_Unanswered(cls, ml, kb, issue_text, ties) ==
    LET similar_convs ==
            FindSimilarConversations(cls, ml, kb, issue_text,
                                     IF cls = "rag" THEN 10 ELSE 3, ties)
        resolved_convs == SelectSeq(similar_convs, LAMBDA conv : conv.resolved)
        taken == IF cls = "rag" THEN FirstN(resolved_convs, 3) ELSE resolved_convs
    IN  [i \in 1..Len(taken) |-> SimilarCaseSuggestion(cls, taken[i])]

\* The similar-case suggestions.  CallCenterRAG searches 10, keeps the resolved,
\* takes the first 3; UnifiedCallCenterAI searches 3, keeps the resolved.  Both
\* skip a conversation with no agent message.
SimilarCaseSuggestions(cls, ml, kb, issue_text, ties) ==
    LET similar_convs ==
            FindSimilarConversations(cls, ml, kb, issue_text,
                                     IF cls = "rag" THEN 10 ELSE 3, ties)
        resolved_convs == SelectSeq(similar_convs, LAMBDA conv : conv.resolved)
        taken == IF cls = "rag" THEN FirstN(resolved_convs, 3) ELSE resolved_convs
        answered == SelectSeq(taken, LAMBDA conv : Len(AgentResponses(conv)) > 0)
    IN  [i \in 1..Len(answered) |-> SimilarCaseSuggestion(cls, answered[i])]

\* get_resolution_suggestions with the two parts the other way round.
GetResolutionSuggestions_SimilarFirst(cls, ml, kb, issue_text, category, ties) ==
    SimilarCaseSuggestions(cls, ml, kb, issue_text, ties)
        \o TemplateSuggestions(cls, kb, category)

\* get_resolution_suggestions of either class.
GetResolutionSuggestions(cls, ml, kb, issue_text, category, ties) ==
    TemplateSuggestions(cls, kb, category)
        \o SimilarCaseSuggestions(cls, ml, kb, issue_text, ties)

RECURSIVE GCD(_, _)
GCD(a, b) == IF b = 0 THEN a ELSE GCD(b, a % b)

\* The number num / den (den > 0), in lowest terms.
Fraction(num, den) ==
    LET g == GCD(IF num < 0 THEN -num ELSE num, den)
    IN  <<num \div g, den \div g>>

\* The entry of a category, with every case counted as resolved.
CategoryInsights_AllResolved(patterns) ==
    [total_cases |-> Len(patterns), resolved_cases |-> Len(patterns),
     resolution_rate |-> IF Len(patterns) > 0 THEN Fraction(1, 1) ELSE Fraction(0, 1)]

\* The entry get_issue_insights reports for one category.
CategoryInsights(patterns) ==
    LET total == Len(patterns)
        resolved == Len(SelectSeq(patterns, LAMBDA p : p.resolved))
    IN  [total_cases |-> total, resolved_cases |-> resolved,
         resolution_rate |-> IF total > 0 THEN Fraction(resolved, total)
                             ELSE Fraction(0, 1)]

\* What a query returns and the storage it leaves.
Answer(value, kb) == [value |-> value, kb |-> kb]

\* CallCenterRAG.get_issue_insights: the one category if it is given and present,
\* otherwise every category.
Rag_get_issue_insights(kb, issue_category) ==
    IF Truthy(issue_category) /\ issue_category.text \in DOMAIN kb.issue_patterns
    THEN Answer((issue_category.text :>
                    CategoryInsights(kb.issue_patterns[issue_category.text])), kb)
    ELSE Answer([c \in DOMAIN kb.issue_patterns |->
                    CategoryInsights(kb.issue_patterns[c])], kb)

\* UnifiedCallCenterAI.get_issue_insights.  self.issue_patterns[category] on a
\* missing category is a KeyError in a dict (caught: {} is returned) and inserts
\* an empty list in a defaultdict; a category with no patterns is not reported.
Uni_get_issue_insights(kb, category) ==
    LET reported(patterns) ==
            [c \in {c \in DOMAIN patterns : Len(patterns[c]) > 0} |->
                CategoryInsights(patterns[c])]
    IN  IF ~Truthy(category) THEN Answer(reported(kb.issue_patterns), kb)
        ELSE IF category.text \in DOMAIN kb.issue_patterns
             THEN Answer(reported((category.text :> kb.issue_patterns[category.text])), kb)
        ELSE IF kb.default_factory
             THEN Answer(<<>>, [kb EXCEPT !.issue_patterns = @ @@ (category.text :> <<>>)])
        ELSE Answer(<<>>, kb)

GetIssueInsights(cls, kb, category) ==
    IF cls = "rag" THEN Rag_get_issue_insights(kb, category)
    ELSE Uni_get_issue_insights(kb, category)

\* The sum of a list of numbers.
RECURSIVE Sum(_)
Sum(s) == IF Len(s) = 0 THEN 0 ELSE Head(s) + Sum(Tail(s))

\* CallCenterRAG._calculate_confidence.  Similarities are in hundredths, so the
\* bonus 0.2 is 20, total_score is in ten-thousandths and weight_sum in hundredths.
CalculateConfidence(similar_cases) ==
    LET resolved_bonus(case) == IF case.resolved THEN 20 ELSE 0
        score(case) == case.similarity_score + resolved_bonus(case)
        weight(case) == case.similarity_score
        term(case) == score(case) * weight(case)
        total_score == Sum(MapSeq(similar_cases, term))
        weight_sum == Sum(MapSeq(similar_cases, weight))
    IN  IF Len(similar_cases) = 0 THEN Fraction(0, 1)
        ELSE IF weight_sum > 0 THEN Fraction(total_score, weight_sum * 100)
        ELSE Fraction(0, 1)

\* What the Bedrock call of _generate_enhanced_response does: it answers, or raises.
BedrockOutcomes == {"completion", "fault"}

\* CallCenterRAG._generate_enhanced_response: the completion, or on any exception
\* context.get('agent_draft', ...), which is the draft even when the draft is None.
GenerateEnhancedResponse(agent_draft, bedrock) ==
    IF bedrock = "completion" THEN Str("I am sorry about that. Here is what we can do.")
    ELSE agent_draft

\* What the embedding model does in a query: it encodes the text, or raises.
RetrievalOutcomes == {"none", "encode"}

\* find_similar_conversations when encode may raise: its except clause returns [].
Retrieved(results, retrieval) == IF retrieval = "encode" THEN <<>> ELSE results

\* What enhance_agent_response returns to its caller, or that it raised.
Enhanced(raised, value) == [raised |-> raised, value |-> value]

\* enhance_agent_response with no except clause of its own and a generation step
\* that lets the Bedrock failure through.
EnhanceAgentResponse_Uncaught(kb, customer_message, agent_draft, retrieval, bedrock, ties) ==
    IF bedrock = "fault" THEN Enhanced(TRUE, None)
    ELSE Enhanced(FALSE,
            [enhanced_response |-> GenerateEnhancedResponse(agent_draft, bedrock),
             similar_cases |-> <<>>, suggestions |-> <<>>,
             confidence_score |-> Fraction(0, 1)])

\* CallCenterRAG.enhance_agent_response.  Each step catches its own exceptions
\* (find_similar_conversations and get_resolution_suggestions return [],
\* _generate_enhanced_response returns the draft), so the except clause of the
\* method itself is never entered.
EnhanceAgentResponse(kb, customer_message, agent_draft, retrieval, bedrock, ties) ==
    LET similar_convs ==
            Retrieved(FindSimilarConversations("rag", TRUE, kb, customer_message, 5, ties),
                      retrieval)
        suggestions ==
            TemplateSuggestions("rag", kb, None)
                \o Retrieved(SimilarCaseSuggestions("rag", TRUE, kb, customer_message, ties),
                             retrieval)
    IN  Enhanced(FALSE,
            [enhanced_response |-> GenerateEnhancedResponse(agent_draft, bedrock),
             similar_cases |-> similar_convs,
             suggestions |-> suggestions,
             confidence_score |-> CalculateConfidence(similar_convs)])

\* ------------------------------------------------------------ the state machine

SeqsUpTo(S, n) == UNION {[1..k -> S] : k \in 0..n}

\* Within one contact_id, message_number is a strict total order.
NumbersDistinct(chat_data) ==
    \A i, j \in 1..Len(chat_data) :
        (/\ i < j
         /\ {"contact_id", "message_number"} \subseteq DOMAIN chat_data[i]
         /\ {"contact_id", "message_number"} \subseteq DOMAIN chat_data[j]
         /\ chat_data[i].contact_id = chat_data[j].contact_id)
        => chat_data[i].message_number # chat_data[j].message_number

\* A chat data file of five conversations: A and B alike and resolved, C resolved,
\* D open, E resolved with no agent message.
FiveConversations ==
    << [contact_id |-> "A", message_number |-> 1,
        chat_text |-> "My bill is wrong", chat_user_type |-> "customer"],
       [contact_id |-> "A", message_number |-> 2,
        chat_text |-> "I fixed it, thanks", chat_user_type |-> "agent"],
       [contact_id |-> "B", message_number |-> 1,
        chat_text |-> "My bill is wrong", chat_user_type |-> "customer"],
       [contact_id |-> "B", message_number |-> 2,
        chat_text |-> "I fixed it, thanks", chat_user_type |-> "agent"],
       [contact_id |-> "C", message_number |-> 1,
        chat_text |-> "Bill overcharged", chat_user_type |-> "customer"],
       [contact_id |-> "C", message_number |-> 2,
        chat_text |-> "I updated your bill", chat_user_type |-> "agent"],
       [contact_id |-> "C", message_number |-> 3,
        chat_text |-> "great", chat_user_type |-> "customer"],
       [contact_id |-> "D", message_number |-> 1,
        chat_text |-> "Bill not working", chat_user_type |-> "customer"],
       [contact_id |-> "E", message_number |-> 1,
        chat_text |-> "wifi slow", chat_user_type |-> "customer"],
       [contact_id |-> "E", message_number |-> 2,
        chat_text |-> "thanks", chat_user_type |-> "customer"] >>

\* The chat data files process_chat_data is given: an empty one, one conversation
\* that ends resolved, one that does not, one with a record lacking a key, and
\* the five conversations.
KbDatasets ==
    { <<>>, FiveConversations,
      << [contact_id |-> "X", message_number |-> 1,
          chat_text |-> "My bill is wrong", chat_user_type |-> "customer"],
         [contact_id |-> "X", message_number |-> 2,
          chat_text |-> "I fixed it, thanks", chat_user_type |-> "agent"] >>,
      << [contact_id |-> "Y", message_number |-> 1,
          chat_text |-> "Internet not working", chat_user_type |-> "customer"] >>,
      << [contact_id |-> "Y", message_number |-> 1,
          chat_text |-> "Internet not working", chat_user_type |-> "customer"],
         [contact_id |-> "Y", message_number |-> 2, chat_text |-> "Hello"] >> }

\* Ingested, computed once for each class and file.
Ingestion == [cls \in Impls |-> [chat_data \in KbDatasets |-> Ingested(cls, chat_data)]]

ProcessFaults == {"none", "read", "encode", "add"}

SaveFaults == {"none", "dump"}

LoadFaults == {"none", "read"}

Storage ==
    KnowledgeBase(conversation_index, conversation_metadata,
                  issue_patterns, resolution_templates, default_factory)

\* The storage variables after a call.
Store(kb) ==
    /\ conversation_index' = kb.conversation_index
    /\ conversation_metadata' = kb.conversation_metadata
    /\ issue_patterns' = kb.issue_patterns
    /\ resolution_templates' = kb.resolution_templates
    /\ default_factory' = kb.default_factory

Called(op, fault, raised) == [op |-> op, fault |-> fault, raised |-> raised, value |-> None]

\* An instance is constructed; AWSCallCenterAgent always uses the default path.
Init ==
    /\ impl \in Impls
    /\ ml_ready \in (IF impl = "rag" THEN {TRUE} ELSE BOOLEAN)
    /\ kb_path \in (IF impl = "rag" THEN {DefaultKbPath} ELSE Paths)
    /\ InstanceInit
    /\ disk = [f \in Files |-> Absent]
    /\ input = None
    /\ call = NoCall

\* The process is started again: a new instance over the same files.
Construct ==
    /\ conversation_index' = None
    /\ conversation_metadata' = <<>>
    /\ issue_patterns' = <<>>
    /\ resolution_templates' = <<>>
    /\ default_factory' = FALSE
    /\ knowledge_base_loaded' = FALSE
    /\ call' = Called("__init__", "none", FALSE)
    /\ UNCHANGED <<impl, ml_ready, kb_path, disk, input>>

\* process_chat_data(chat_data_path), the file holding chat_data.
ProcessChatDataCall ==
    \E chat_data \in KbDatasets, fault \in ProcessFaults :
        LET r == ProcessChatData(impl, ml_ready, Storage, Ingestion[impl][chat_data], fault)
        IN  /\ Store(r.kb)
            /\ call' = Called("process_chat_data", r.fault, r.raised)
            /\ UNCHANGED <<impl, ml_ready, kb_path, knowledge_base_loaded, disk, input>>

\* save_knowledge_base(kb_path).
SaveKnowledgeBaseCall ==
    \E fault \in SaveFaults :
        LET r == SaveKnowledgeBase(impl, Storage, disk, kb_path, fault)
        IN  /\ disk' = r.disk
            /\ call' = Called("save_knowledge_base", r.fault, r.raised)
            /\ UNCHANGED <<impl, ml_ready, kb_path, conversation_index,
                           conversation_metadata, issue_patterns, resolution_templates,
                           default_factory, knowledge_base_loaded, input>>

\* load_knowledge_base(kb_path).
LoadKnowledgeBaseCall ==
    \E fault \in LoadFaults :
        LET r == LoadKnowledgeBase(impl, ml_ready, Storage, disk, kb_path, fault)
        IN  /\ Store(r.kb)
            /\ call' = Called("load_knowledge_base", r.fault, r.raised)
            /\ UNCHANGED <<impl, ml_ready, kb_path, knowledge_base_loaded, disk, input>>

\* initialize_knowledge_base(chat_data_path), the file holding chat_data.
InitializeKnowledgeBaseCall ==
    \E chat_data \in KbDatasets, fault \in ProcessFaults \cup SaveFaults \cup LoadFaults :
        LET r == InitializeKnowledgeBase(impl, ml_ready, Storage, disk,
                                         knowledge_base_loaded, kb_path,
                                         Ingestion[impl][chat_data], fault)
        IN  /\ Store(r.kb)
            /\ disk' = r.disk
            /\ knowledge_base_loaded' = r.flag
            /\ call' = Called("initialize_knowledge_base", r.fault, r.raised)
            /\ UNCHANGED <<impl, ml_ready, kb_path, input>>

Next ==
    \/ Construct
    \/ ProcessChatDataCall
    \/ SaveKnowledgeBaseCall
    \/ LoadKnowledgeBaseCall
    \/ InitializeKnowledgeBaseCall

Spec == Init /\ [][Next]_vars

\* ------------------------------------------------------- the instance, serving

\* Query texts; their embeddings differ.
QueryTexts == {"bill", "hi"}

\* The category arguments: omitted, empty, two categories of the five
\* conversations, and one no file has.
CategoryArguments == {None, Str(""), Str("billing"), Str("data"), Str("refund")}

\* The agent_draft arguments.
AgentDrafts == {None, Str(""), Str("We will look into it.")}

\* find_similar_conversations(query, top_k).
FindSimilarConversationsCall ==
    \E query \in QueryTexts, top_k \in 0..MaxTopK, ties \in TieOrders :
        /\ call' = [op |-> "find_similar_conversations", fault |-> "none",
                    raised |-> FALSE, query |-> query, top_k |-> top_k, ties |-> ties,
                    value |-> FindSimilarConversations(impl, ml_ready, Storage,
                                                       query, top_k, ties)]
        /\ UNCHANGED <<kbvars, input>>

\* get_resolution_suggestions(issue_text, category).
GetResolutionSuggestionsCall ==
    \E issue_text \in QueryTexts, category \in CategoryArguments, ties \in TieOrders :
        /\ call' = [op |-> "get_resolution_suggestions", fault |-> "none",
                    raised |-> FALSE, query |-> issue_text, category |-> category,
                    ties |-> ties,
                    value |-> GetResolutionSuggestions(impl, ml_ready, Storage,
                                                       issue_text, category, ties)]
        /\ UNCHANGED <<kbvars, input>>

\* get_issue_insights(category).
GetIssueInsightsCall ==
    \E category \in CategoryArguments :
        LET r == GetIssueInsights(impl, Storage, category)
        IN  /\ Store(r.kb)
            /\ call' = [op |-> "get_issue_insights", fault |-> "none",
                        raised |-> FALSE, category |-> category, value |-> r.value]
            /\ UNCHANGED <<impl, ml_ready, kb_path, knowledge_base_loaded, disk, input>>

\* enhance_agent_response(customer_message, conversation_history, agent_draft),
\* which only CallCenterRAG has.
EnhanceAgentResponseCall ==
    \E customer_message \in QueryTexts, agent_draft \in AgentDrafts,
       retrieval \in RetrievalOutcomes, bedrock \in BedrockOutcomes, ties \in TieOrders :
        LET r == EnhanceAgentResponse(Storage, customer_message, agent_draft,
                                      retrieval, bedrock, ties)
        IN  /\ impl = "rag"
            /\ call' = [op |-> "enhance_agent_response",
                        fault |-> IF bedrock = "fault" THEN "bedrock" ELSE "none",
                        retrieval |-> retrieval,
                        raised |-> r.raised, query |-> customer_message,
                        agent_draft |-> agent_draft, ties |-> ties,
                        value |-> r.value]
            /\ UNCHANGED <<kbvars, input>>

\* An instance that ingests chat data files and answers queries.
NextQuery ==
    \/ ProcessChatDataCall
    \/ FindSimilarConversationsCall
    \/ GetResolutionSuggestionsCall
    \/ GetIssueInsightsCall
    \/ EnhanceAgentResponseCall

SpecQuery == Init /\ [][NextQuery]_vars

\* ------------------------------------- a rebuild, with queries from other threads

\* The rebuilding thread inside process_chat_data: where it stands, and the
\* index contents it computed.
Rebuilding(pc, contents) == [kind |-> "rebuild", pc |-> pc, contents |-> contents]

\* process_chat_data up to the encode call of _build_conversation_index: the
\* file is grouped, both pattern maps are replaced, the rows are computed.
RebuildStart ==
    \E chat_data \in KbDatasets :
        /\ input = None
        /\ impl = "rag" \/ ml_ready
        /\ ~Ingestion[impl][chat_data].raised
        /\ issue_patterns' = Ingestion[impl][chat_data].maps.issue_patterns
        /\ resolution_templates' = Ingestion[impl][chat_data].maps.resolution_templates
        /\ default_factory' = TRUE
        /\ input' = Rebuilding("encoded", Ingestion[impl][chat_data].contents)
        /\ UNCHANGED <<impl, ml_ready, kb_path, conversation_index, conversation_metadata,
                       knowledge_base_loaded, disk, call>>

\* self.conversation_index = faiss.IndexFlatIP(dimension).
RebuildAssignIndex ==
    /\ input # None
    /\ input.pc = "encoded"
    /\ conversation_index' = IndexFlatIP(<<>>)
    /\ input' = Rebuilding("assigned", input.contents)
    /\ UNCHANGED <<impl, ml_ready, kb_path, conversation_metadata, issue_patterns,
                   resolution_templates, default_factory, knowledge_base_loaded, disk, call>>

\* self.conversation_index.add(embeddings): the index already published is filled.
RebuildAdd ==
    /\ input # None
    /\ input.pc = "assigned"
    /\ conversation_index' = IndexFlatIP(input.contents.rows)
    /\ input' = Rebuilding("added", input.contents)
    /\ UNCHANGED <<impl, ml_ready, kb_path, conversation_metadata, issue_patterns,
                   resolution_templates, default_factory, knowledge_base_loaded, disk, call>>

\* self.conversation_metadata = metadata, and process_chat_data returns.
RebuildAssignMetadata ==
    /\ input # None
    /\ input.pc = "added"
    /\ conversation_metadata' = input.contents.metadata
    /\ input' = None
    /\ UNCHANGED <<impl, ml_ready, kb_path, conversation_index, issue_patterns,
                   resolution_templates, default_factory, knowledge_base_loaded, disk, call>>

\* find_similar_conversations(query, top_k) on another thread: it reads the index
\* and the metadata list as they are at this moment.
ConcurrentFindSimilarConversations ==
    \E query \in QueryTexts, top_k \in 1..MaxTopK, ties \in TieOrders :
        /\ call' = [op |-> "find_similar_conversations", fault |-> "none",
                    raised |-> FALSE, query |-> query, top_k |-> top_k, ties |-> ties,
                    rebuilding |-> input # None,
                    index |-> conversation_index, metadata |-> conversation_metadata,
                    value |-> FindSimilarConversations(impl, ml_ready, Storage,
                                                       query, top_k, ties)]
        /\ UNCHANGED <<kbvars, input>>

NextRebuild ==
    \/ RebuildStart
    \/ RebuildAssignIndex
    \/ RebuildAdd
    \/ RebuildAssignMetadata
    \/ ConcurrentFindSimilarConversations

SpecRebuild == Init /\ [][NextRebuild]_vars

\* ---------------------------------------- specifications of the pure functions

ContactIds == {"X", "Y"}

\* What is said, and by whom.
Utterances ==
    { [chat_user_type |-> "customer", chat_text |-> "My bill is wrong"],
      [chat_user_type |-> "agent", chat_text |-> "Let me check" ] }

\* Chat records as the data files hold them.
WellFormedMessages ==
    { [contact_id |-> c, message_number |-> n,
       chat_text |-> u.chat_text, chat_user_type |-> u.chat_user_type] :
        c \in ContactIds, n \in 1..MaxBatch, u \in Utterances }

\* Records that lack contact_id, or chat_user_type.
MalformedMessages ==
    { [message_number |-> 1, chat_text |-> "Hello", chat_user_type |-> "customer"],
      [contact_id |-> "X", message_number |-> 1, chat_text |-> "Hello"] }

GroupInputs ==
    {d \in SeqsUpTo(WellFormedMessages \cup MalformedMessages, MaxBatch) :
        NumbersDistinct(d)}

PureInit(inputs) ==
    /\ impl \in Impls
    /\ ml_ready = TRUE
    /\ kb_path = DefaultKbPath
    /\ InstanceInit
    /\ disk = [f \in Files |-> Absent]
    /\ input \in inputs
    /\ call = NoCall

\* _group_conversations(chat_data), on the drawn chat_data.
ApplyGroupConversations ==
    /\ call.op = "none"
    /\ LET r == GroupConversations(impl, input)
       IN  call' = [op |-> "_group_conversations", fault |-> "none",
                    raised |-> r.raised, value |-> r.value]
    /\ UNCHANGED <<kbvars, input>>

SpecGroup == PureInit(GroupInputs) /\ [][ApplyGroupConversations]_vars

\* The closing messages of a conversation.
ResolutionTexts == {"Thank you", "that helped", "all done", "hello"}

ResolutionInputs ==
    SeqsUpTo({[text |-> t, user_type |-> "customer"] : t \in ResolutionTexts}, MaxConv)

\* _detect_resolution(messages), on the drawn message list.
ApplyDetectResolution ==
    /\ call.op = "none"
    /\ call' = [op |-> "_detect_resolution", fault |-> "none", raised |-> FALSE,
                value |-> DetectResolution(impl, input)]
    /\ UNCHANGED <<kbvars, input>>

SpecResolve == PureInit(ResolutionInputs) /\ [][ApplyDetectResolution]_vars

\* Pieces of customer text; a text is a few of them in a row.
Fragments ==
    {"My bill", " is not working", "Internet", " plan", "hello", " ROAMING",
     "account", " cost", "slow wifi", " Problem"}

RECURSIVE Concat(_)
Concat(parts) == IF Len(parts) = 0 THEN "" ELSE Head(parts) \o Concat(Tail(parts))

ClassifierInputs == {Concat(parts) : parts \in SeqsUpTo(Fragments, MaxFrags)}

\* The classification of the drawn text.
ApplyDetectIssueCategory ==
    /\ call.op = "none"
    /\ call' = [op |-> "_detect_issue_category", fault |-> "none", raised |-> FALSE,
                value |-> DetectIssueCategory(impl, input)]
    /\ UNCHANGED <<kbvars, input>>

SpecClassify == PureInit(ClassifierInputs) /\ [][ApplyDetectIssueCategory]_vars

\* Similarity scores in [-1, 1], in hundredths.
SimilarityScores == {-100, -50, 0, 50, 100}

\* Lists of similar cases, as find_similar_conversations results are read by
\* _calculate_confidence: the similarity score and the resolved mark.
ConfidenceInputs ==
    SeqsUpTo([similarity_score : SimilarityScores, resolved : BOOLEAN], MaxCases)

\* _calculate_confidence(similar_cases), on the drawn list; CallCenterRAG has it.
ApplyCalculateConfidence ==
    /\ call.op = "none"
    /\ call' = [op |-> "_calculate_confidence", fault |-> "none", raised |-> FALSE,
                value |-> CalculateConfidence(input)]
    /\ UNCHANGED <<kbvars, input>>

\* A CallCenterRAG instance and the drawn list.
ConfidenceInit == PureInit(ConfidenceInputs) /\ impl = "rag"

SpecConfidence == ConfidenceInit /\ [][ApplyCalculateConfidence]_vars

\* ------------------------------------------------------------------ C1 .. C6

Grouped == call.op = "_group_conversations" /\ ~call.raised

\* The (text, user_type) of a chat record or of a grouped message.
Said(text, user_type) == [text |-> text, user_type |-> user_type]

\* The records of chat_data with contact_id cid, in arrival order.
OfContact(chat_data, cid) ==
    SelectSeq(chat_data, LAMBDA m : m.contact_id = cid)

\* The same records in ascending message_number order.
ByMessageNumber(records) ==
    [k \in 1..Len(records) |->
        CHOOSE m \in Range(records) :
            Cardinality({o \in Range(records) : o.message_number < m.message_number}) = k - 1]

Count(s, e) == Cardinality({i \in 1..Len(s) : s[i] = e})

SameBag(a, b) ==
    /\ Len(a) = Len(b)
    /\ \A e \in Range(a) \cup Range(b) : Count(a, e) = Count(b, e)

\* C1: for every contact_id of the input, the grouped conversation's messages are
\* the input messages of that contact_id in ascending message_number order.
C1_MessagesInNumberOrder ==
    Grouped =>
        \A k \in 1..Len(call.value) :
            LET conv == call.value[k]
                want == ByMessageNumber(OfContact(input, conv.contact_id))
            IN  [i \in 1..Len(conv.messages) |->
                    Said(conv.messages[i].text, conv.messages[i].user_type)]
                = [i \in 1..Len(want) |-> Said(want[i].chat_text, want[i].chat_user_type)]

\* C2: the grouper's output partitions its input: the keys are the contact_ids of
\* the input, each once; every input message is in the conversation of its contact_id
\* exactly once, and no conversation is empty; customer_messages and agent_messages
\* are the customer and agent texts of the conversation's messages, in their order.
C2_GroupingPartitionsInput ==
    Grouped =>
        /\ {call.value[k].contact_id : k \in 1..Len(call.value)}
             = {input[i].contact_id : i \in 1..Len(input)}
        /\ \A j, k \in 1..Len(call.value) :
             call.value[j].contact_id = call.value[k].contact_id => j = k
        /\ (Len(input) = 0 => call.value = <<>>)
        /\ \A k \in 1..Len(call.value) :
             LET conv == call.value[k]
                 mine == OfContact(input, conv.contact_id)
                 said == [i \in 1..Len(conv.messages) |->
                             Said(conv.messages[i].text, conv.messages[i].user_type)]
             IN  /\ Len(conv.messages) > 0
                 /\ SameBag(said, [i \in 1..Len(mine) |->
                                     Said(mine[i].chat_text, mine[i].chat_user_type)])
                 /\ conv.customer_messages
                      = MapSeq(SelectSeq(said, LAMBDA m : m.user_type = "customer"), TextOf)
                 /\ conv.agent_messages
                      = MapSeq(SelectSeq(said, LAMBDA m : m.user_type = "agent"), TextOf)

\* A grouping of two interleaved contacts, one of them with both speakers.
C2_Witness ==
    /\ Grouped
    /\ Len(call.value) = 2
    /\ \E k \in 1..2 :
         /\ Len(call.value[k].customer_messages) > 0
         /\ Len(call.value[k].agent_messages) > 0
    /\ Len(input) = 3
    /\ input[1].contact_id = input[3].contact_id
    /\ input[1].contact_id # input[2].contact_id

WellFormed(message) ==
    {"contact_id", "chat_text", "chat_user_type", "message_number"} \subseteq DOMAIN message

\* C3: a batch with a record missing contact_id or chat_user_type does not fail:
\* that record is dropped and every well-formed record is grouped.
C3_MalformedRecordSkipped ==
    (/\ call.op = "_group_conversations"
     /\ \E i \in 1..Len(input) : ~WellFormed(input[i]))
    => /\ ~call.raised
       /\ call.value = GroupConversations(impl, SelectSeq(input, WellFormed)).value

CategoryOrder == <<"billing", "technical", "account", "service", "roaming", "data">>

\* C4: the classifier returns the first category, in the order billing, technical,
\* account, service, roaming, data, that has a keyword occurring in the lowercased
\* text, and other exactly when no category has one; a text with both "bill" and
\* "not working" is billing.
C4_FirstMatchClassifier ==
    call.op = "_detect_issue_category" =>
        LET table == CategoryTable(impl)
            text == Lower(input)
            Hit(i) == \E w \in Range(table[i].keywords) : Contains(w, text)
        IN  /\ [i \in 1..Len(table) |-> table[i].name] = CategoryOrder
            /\ \A i \in 1..Len(CategoryOrder) :
                 call.value = CategoryOrder[i] <=> (Hit(i) /\ \A j \in 1..(i - 1) : ~Hit(j))
            /\ call.value = "other" <=> \A i \in 1..Len(CategoryOrder) : ~Hit(i)
            /\ (Contains("bill", text) /\ Contains("not working", text))
                 => call.value = "billing"

\* A text with keywords of two categories has been classified by priority.
C4_Witness ==
    /\ call.op = "_detect_issue_category"
    /\ Contains("bill", Lower(input))
    /\ Contains("not working", Lower(input))
    /\ call.value = "billing"

\* C5: the resolution detector returns false for every conversation with fewer
\* than 2 messages, also when its only message holds "thank you".
C5_ShortConversationUnresolved ==
    (call.op = "_detect_resolution" /\ Len(input) < 2) => call.value = FALSE

\* The positive-resolution keywords the detector is specified with.
ResolutionKeywords ==
    <<"resolved", "fixed", "sorted", "done", "complete", "thank you", "thanks",
      "perfect", "great", "excellent", "helped">>

\* C6: for a conversation of at least 2 messages the detector returns true if and
\* only if one of the keywords resolved, fixed, sorted, done, complete, thank you,
\* thanks, perfect, great, excellent, helped occurs in the lowercased text of the
\* last 3 messages.
C6_ResolvedIffKeywordInLastThree ==
    (call.op = "_detect_resolution" /\ Len(input) >= 2) =>
        (call.value <=>
            \E w \in Range(ResolutionKeywords) :
                Contains(w, Join(MapSeq(MapSeq(LastN(input, 3), TextOf), Lower))))

\* ----------------------------------------------------------------- C7 .. C10

\* The index row of the conversation a metadata record describes.
RowOfMetadata(meta) ==
    IndexRow(SummaryText(
        MapSeq(SelectSeq(meta.full_conversation, LAMBDA m : m.user_type = "customer"), TextOf),
        MapSeq(SelectSeq(meta.full_conversation, LAMBDA m : m.user_type # "customer"), TextOf)))

\* C7: in every state reached by process_chat_data, save_knowledge_base and
\* load_knowledge_base calls, failing ones included, a non-null index has exactly
\* len(conversation_metadata) rows and row i is the embedding of the conversation
\* conversation_metadata[i] describes.
C7_IndexMatchesMetadata ==
    conversation_index # None =>
        /\ Len(conversation_index.rows) = Len(conversation_metadata)
        /\ \A i \in 1..Len(conversation_metadata) :
             conversation_index.rows[i] = RowOfMetadata(conversation_metadata[i])

\* C8: when the embedding or index-build step fails during process_chat_data, the
\* call fails and issue_patterns, resolution_templates, conversation_metadata and
\* the index keep the values they had before the call.
C8_FailedBuildLeavesStorage ==
    [][(call'.op = "process_chat_data" /\ call'.fault \in {"encode", "add"})
        => /\ call'.raised
           /\ UNCHANGED <<issue_patterns, resolution_templates,
                          conversation_metadata, conversation_index>>]_vars

\* C9: load_knowledge_base raises whenever the snapshot file is present and the
\* companion index file is missing.
C9_LoadFailsWithoutIndexFile ==
    (/\ call.op = "load_knowledge_base"
     /\ disk[kb_path].kind # "absent"
     /\ disk[IndexPathOf[kb_path]].kind = "absent")
    => call.raised

\* C10: when loading an existing snapshot fails (the file cannot be read or is no
\* pickle), initialize_knowledge_base raises and knowledge_base_loaded stays false.
C10_FailedLoadFailsStartup ==
    [][(/\ call'.op = "initialize_knowledge_base"
        /\ disk[kb_path].kind # "absent"
        /\ (call'.fault = "read" \/ disk[kb_path].kind # "pickle")
        /\ ~knowledge_base_loaded)
        => (call'.raised /\ ~knowledge_base_loaded')]_vars

\* ---------------------------------------------------------------- C11 .. C20

\* The storage of a freshly constructed instance.
FreshStorage == KnowledgeBase(None, <<>>, <<>>, <<>>, FALSE)

\* kb2 of a round trip: save_knowledge_base(file_path) on kb, then
\* load_knowledge_base(file_path) into a fresh instance.
RoundTrip(cls, ml, kb, dsk, file_path) ==
    LoadKnowledgeBase(cls, ml, FreshStorage,
                      SaveKnowledgeBase(cls, kb, dsk, file_path, "none").disk,
                      file_path, "none").kb

\* C11: for every built knowledge base (its index is not None) and every path,
\* saving to the path and loading the path into a fresh instance gives equal
\* issue_patterns, resolution_templates and conversation_metadata, and
\* find_similar_conversations(q, k) returns the same results (contact ids and
\* scores, in the same order) on both, for every query and every k up to the
\* number of conversations.
C11_SaveLoadRoundTrip ==
    conversation_index # None =>
        \A file_path \in Paths :
            LET kb2 == RoundTrip(impl, ml_ready, Storage, disk, file_path)
            IN  /\ kb2.issue_patterns = issue_patterns
                /\ kb2.resolution_templates = resolution_templates
                /\ kb2.conversation_metadata = conversation_metadata
                /\ \A q \in QueryTexts, k \in 1..Len(conversation_metadata),
                      ties \in TieOrders :
                       FindSimilarConversations(impl, ml_ready, kb2, q, k, ties)
                         = FindSimilarConversations(impl, ml_ready, Storage, q, k, ties)

\* The same round trip, on the paths that contain '.pkl' only.
C11_RoundTripOnPklPaths ==
    conversation_index # None =>
        LET kb2 == RoundTrip(impl, ml_ready, Storage, disk, DefaultKbPath)
        IN  /\ kb2.issue_patterns = issue_patterns
            /\ kb2.resolution_templates = resolution_templates
            /\ kb2.conversation_metadata = conversation_metadata
            /\ \A q \in QueryTexts, k \in 1..Len(conversation_metadata),
                  ties \in TieOrders :
                   FindSimilarConversations(impl, ml_ready, kb2, q, k, ties)
                     = FindSimilarConversations(impl, ml_ready, Storage, q, k, ties)

\* The index was never built, or holds no entry.
Unbuilt == conversation_index = None \/ Len(conversation_index.rows) = 0

\* C12: on a knowledge base whose index was never built or has zero entries,
\* find_similar_conversations returns the empty list and
\* get_resolution_suggestions returns no similarity-derived entry; neither raises.
C12_UnbuiltIndexAnswersEmpty ==
    /\ (call.op = "find_similar_conversations" /\ Unbuilt)
          => (~call.raised /\ call.value = <<>>)
    /\ (call.op = "get_resolution_suggestions" /\ Unbuilt)
          => (/\ ~call.raised
              /\ \A i \in 1..Len(call.value) : call.value[i].type # "similar_case")

\* find_similar_conversations was asked for some results on an index that holds
\* no entry while the metadata list holds some.
C12_Witness ==
    /\ call.op = "find_similar_conversations"
    /\ call.top_k > 0
    /\ conversation_index # None
    /\ Len(conversation_index.rows) = 0
    /\ Len(conversation_metadata) > 0
    /\ call.value = <<>>

\* The position in conversation_metadata of the conversation a result is of.
PositionOf(result) ==
    CHOOSE i \in 1..Len(conversation_metadata) :
        conversation_metadata[i].contact_id = result.contact_id

\* A find_similar_conversations result list is right up to the order of equal
\* scores: min(k, n) results, each a distinct metadata entry with its own score,
\* in non-increasing score.
TopKResults(results, query, top_k) ==
    LET n == Len(conversation_metadata)
    IN  /\ Len(results) = (IF top_k < n THEN top_k ELSE n)
        /\ \A r \in 1..Len(results) :
             /\ \E i \in 1..n :
                  /\ results[r].contact_id = conversation_metadata[i].contact_id
                  /\ results[r].resolved = conversation_metadata[i].resolved
                  /\ results[r].full_conversation
                        = conversation_metadata[i].full_conversation
                  /\ results[r].similarity_score
                        = InnerProduct(IndexRow(query), conversation_index.rows[i])
        /\ \A r1, r2 \in 1..Len(results) :
             r1 < r2 => /\ PositionOf(results[r1]) # PositionOf(results[r2])
                        /\ results[r1].similarity_score >= results[r2].similarity_score

\* C13: on a built index with n conversations, find_similar_conversations(query, k)
\* returns exactly min(k, n) results, each a distinct entry of
\* conversation_metadata with its similarity score, in non-increasing score, and
\* results of equal score in insertion order.
C13_TopKInScoreThenInsertionOrder ==
    (/\ call.op = "find_similar_conversations"
     /\ conversation_index # None
     /\ C7_IndexMatchesMetadata)
    => /\ TopKResults(call.value, call.query, call.top_k)
       /\ \A r1, r2 \in 1..Len(call.value) :
            (r1 < r2 /\ call.value[r1].similarity_score = call.value[r2].similarity_score)
              => PositionOf(call.value[r1]) < PositionOf(call.value[r2])

\* C13 without its last clause: everything but the order of equal scores.
C13_TopKUpToTies ==
    (/\ call.op = "find_similar_conversations"
     /\ conversation_index # None
     /\ C7_IndexMatchesMetadata)
    => TopKResults(call.value, call.query, call.top_k)

QueryOperations ==
    {"find_similar_conversations", "get_resolution_suggestions",
     "get_issue_insights", "enhance_agent_response"}

\* C14: every query operation leaves issue_patterns (its set of category keys
\* included), resolution_templates, conversation_metadata and the index as they
\* were, whatever its arguments, a category the knowledge base lacks included.
C14_QueriesAreReadOnly ==
    [][call'.op \in QueryOperations
        => UNCHANGED <<issue_patterns, resolution_templates,
                       conversation_metadata, conversation_index>>]_vars

\* The template-derived suggestions of a returned list, in its order.
TemplateDerived(suggestions) == SelectSeq(suggestions, LAMBDA sg : sg.type = "template")

\* The similarity-derived suggestions of a returned list, in its order.
SimilarityDerived(suggestions) ==
    SelectSeq(suggestions, LAMBDA sg : sg.type = "similar_case")

\* The category argument is given and resolution_templates has it.
CategoryHasTemplates(category) ==
    Truthy(category) /\ category.text \in DOMAIN resolution_templates

\* C15: get_resolution_suggestions returns at most 2 template-derived
\* suggestions, none unless a category is given and present in
\* resolution_templates, and they are the first templates of that category in
\* stored order.
C15_AtMostTwoTemplates ==
    call.op = "get_resolution_suggestions" =>
        LET from_templates == TemplateDerived(call.value)
        IN  /\ Len(from_templates) <= 2
            /\ ~CategoryHasTemplates(call.category) => Len(from_templates) = 0
            /\ CategoryHasTemplates(call.category) =>
                 LET templates == resolution_templates[call.category.text]
                 IN  /\ Len(from_templates) = (IF Len(templates) < 2 THEN Len(templates) ELSE 2)
                     /\ \A i \in 1..Len(from_templates) :
                          i <= Len(templates) /\ from_templates[i].steps = templates[i].steps

\* C16: in the list get_resolution_suggestions returns, every template-derived
\* suggestion precedes every similarity-derived one, the template-derived ones
\* are in stored order, and the similarity-derived ones are in non-increasing
\* similarity score.
C16_TemplatesThenSimilarCases ==
    call.op = "get_resolution_suggestions" =>
        LET from_templates == TemplateDerived(call.value)
            from_similar == SimilarityDerived(call.value)
        IN  /\ call.value = from_templates \o from_similar
            /\ Len(from_templates) > 0 =>
                 /\ CategoryHasTemplates(call.category)
                 /\ \A i \in 1..Len(from_templates) :
                      /\ i <= Len(resolution_templates[call.category.text])
                      /\ from_templates[i].steps
                            = resolution_templates[call.category.text][i].steps
            /\ \A i, j \in 1..Len(from_similar) :
                 i < j => from_similar[i].similarity_score
                            >= from_similar[j].similarity_score

\* A returned list with two different templates and similar cases of two
\* different scores.
C16_Witness ==
    /\ call.op = "get_resolution_suggestions"
    /\ \E i, j \in 1..Len(call.value) :
         /\ i < j
         /\ call.value[i].type = "template" /\ call.value[j].type = "template"
         /\ call.value[i].steps # call.value[j].steps
    /\ \E i, j \in 1..Len(call.value) :
         /\ call.value[i].type = "similar_case" /\ call.value[j].type = "similar_case"
         /\ call.value[i].similarity_score > call.value[j].similarity_score

\* C17: every similarity-derived suggestion comes from a conversation marked
\* resolved, with that conversation's similarity score and its agent messages, a
\* non-empty list in conversation order; an unresolved conversation or one
\* without agent messages yields none.
C17_SimilarCasesAreResolvedAndAnswered ==
    call.op = "get_resolution_suggestions" =>
        \A s \in 1..Len(call.value) :
            call.value[s].type = "similar_case" =>
                /\ Len(call.value[s].agent_responses) > 0
                /\ \E i \in 1..Len(conversation_metadata) :
                     /\ conversation_metadata[i].resolved
                     /\ i <= Len(conversation_index.rows)
                     /\ call.value[s].similarity_score
                           = InnerProduct(IndexRow(call.query), conversation_index.rows[i])
                     /\ call.value[s].agent_responses
                           = AgentResponses(conversation_metadata[i])

\* Suggestions were asked for a text that an unresolved conversation and a
\* resolved one without agent messages match best, and a similar case was given.
C17_Witness ==
    /\ call.op = "get_resolution_suggestions"
    /\ \E i, j \in 1..Len(conversation_metadata) :
         /\ ~conversation_metadata[i].resolved
         /\ conversation_metadata[j].resolved
         /\ Len(AgentResponses(conversation_metadata[j])) = 0
         /\ i <= Len(conversation_index.rows) /\ j <= Len(conversation_index.rows)
         /\ \A s \in 1..Len(call.value) :
              call.value[s].type = "similar_case" =>
                /\ InnerProduct(IndexRow(call.query), conversation_index.rows[i])
                     > call.value[s].similarity_score
                /\ InnerProduct(IndexRow(call.query), conversation_index.rows[j])
                     > call.value[s].similarity_score
    /\ Len(SimilarityDerived(call.value)) > 0

\* C18: get_issue_insights with a category argument returns statistics for that
\* category only: no entry for any other category, also when the requested one
\* has no cases or is unknown; with the argument omitted it returns one entry per
\* category in issue_patterns.
C18_InsightsForRequestedCategoryOnly ==
    call.op = "get_issue_insights" =>
        IF Truthy(call.category)
        THEN DOMAIN call.value \subseteq {call.category.text}
        ELSE DOMAIN call.value = DOMAIN issue_patterns

\* C19: for every category get_issue_insights reports, total_cases is the number
\* of its issue-pattern records, resolved_cases the number of those with resolved
\* true, and resolution_rate is resolved_cases / total_cases, or 0 when
\* total_cases is 0; the call does not raise.
C19_InsightsCountAndRate ==
    call.op = "get_issue_insights" =>
        /\ ~call.raised
        /\ \A c \in DOMAIN call.value :
             LET entry == call.value[c]
                 patterns == issue_patterns[c]
                 resolved == Cardinality({i \in 1..Len(patterns) : patterns[i].resolved})
             IN  /\ c \in DOMAIN issue_patterns
                 /\ entry.total_cases = Len(patterns)
                 /\ entry.resolved_cases = resolved
                 /\ 0 <= entry.resolved_cases /\ entry.resolved_cases <= entry.total_cases
                 /\ entry.resolution_rate[2] > 0
                 /\ IF entry.total_cases = 0 THEN entry.resolution_rate[1] = 0
                    ELSE entry.resolution_rate[1] * entry.total_cases
                           = entry.resolution_rate[2] * entry.resolved_cases

\* The insights of a category with 4 cases, 3 of them resolved: rate 3/4.
C19_Witness ==
    /\ call.op = "get_issue_insights"
    /\ "billing" \in DOMAIN call.value
    /\ call.value["billing"].total_cases = 4
    /\ call.value["billing"].resolved_cases = 3
    /\ call.value["billing"].resolution_rate = <<3, 4>>

\* C20: for every list of similar cases with similarity scores in [-1, 1],
\* _calculate_confidence returns a value in [0, 1.2]; the value is
\* sum((similarity + bonus) * similarity) / sum(similarity) with bonus 0.2 for a
\* resolved case and 0 otherwise, and exactly 0 for the empty list.  The value is
\* the fraction call.value[1] / call.value[2].
C20_ConfidenceWithinBounds ==
    call.op = "_calculate_confidence" =>
        /\ call.value[2] > 0
        /\ 0 <= call.value[1]
        /\ 10 * call.value[1] <= 12 * call.value[2]
        /\ Len(input) = 0 => call.value[1] = 0

\* ---------------------------------------------------------------- C21 .. C30

\* C21: enhance_agent_response never raises to its caller: whether retrieval or
\* the text-generation call fails, it returns a result with the four fields
\* enhanced_response, similar_cases, suggestions and confidence_score.
C21_EnhanceNeverRaises ==
    call.op = "enhance_agent_response" =>
        /\ ~call.raised
        /\ DOMAIN call.value
             = {"enhanced_response", "similar_cases", "suggestions", "confidence_score"}

\* enhance_agent_response returned while both the embedding model and the
\* Bedrock call failed, on a knowledge base with a built index.
C21_Witness ==
    /\ call.op = "enhance_agent_response"
    /\ call.fault = "bedrock"
    /\ call.retrieval = "encode"
    /\ conversation_index # None
    /\ Len(conversation_index.rows) > 0
    /\ ~call.raised
    /\ call.value.similar_cases = <<>>

\* C22: when the text-generation call fails inside enhance_agent_response, the
\* returned enhanced_response is the agent_draft if the caller gave one, and a
\* generic acknowledgment otherwise: never None or empty for want of a draft.
C22_DraftOrAcknowledgment ==
    (call.op = "enhance_agent_response" /\ call.fault = "bedrock" /\ ~call.raised) =>
        IF Truthy(call.agent_draft)
        THEN call.value.enhanced_response = call.agent_draft
        ELSE Truthy(call.value.enhanced_response)

\* The index and the metadata list belong together: both are as constructed, or
\* the index has one row per metadata entry, the row of that conversation.
Paired(index, metadata) ==
    IF index = None THEN metadata = <<>>
    ELSE /\ Len(index.rows) = Len(metadata)
         /\ \A i \in 1..Len(metadata) : index.rows[i] = RowOfMetadata(metadata[i])

\* C23: while process_chat_data rebuilds, no find_similar_conversations call on
\* the same instance reads the new index with the old metadata list, or the old
\* index with the new list.
C23_RebuildPublishesPairAtomically ==
    call.op = "find_similar_conversations" => Paired(call.index, call.metadata)

\* ------------------------------------------------------ conversation analysis

\* agent.capabilities of the configuration, as far as the fan-out reads it.
Capabilities == {"call_summarization", "sentiment_analysis", "compliance_checking"}

Tasks == {"summary", "sentiment", "compliance", "rag_insights"}

\* What a task meets: nothing, or an exception inside its try block (the
\* Bedrock call raising, for the three generation tasks).
TaskOutcomes == {"ok", "fault"}

\* dict.update(other).
Update(d, other) ==
    [k \in DOMAIN d \cup DOMAIN other |-> IF k \in DOMAIN other THEN other[k] ELSE d[k]]

Dict(keys) == [kind |-> "dict", keys |-> keys]

ErrorText == Str("Bedrock unavailable")

\* A coroutine's result as asyncio.gather sees it: the returned dict, or the
\* exception it raised.
Returned(fields) == [raised |-> FALSE, fields |-> fields]

\* UnifiedCallCenterAI._generate_summary and AWSCallCenterAgent._summarize_call.
GenerateSummary(outcome) ==
    IF outcome = "ok"
    THEN Returned([summary |-> Str("Customer asked about a bill."),
                   summary_generated_at |-> Str("now")])
    ELSE Returned([summary |-> None, error |-> ErrorText])

\* _analyze_sentiment of either agent.
AnalyzeSentiment(cls, outcome) ==
    IF outcome = "ok"
    THEN Returned([sentiment |->
             IF cls = "unified"
             THEN Dict({"overall", "confidence_scores", "detailed_analysis", "analyzed_at"})
             ELSE Dict({"overall", "scores", "detailed_analysis"})])
    ELSE IF cls = "unified"
         THEN Returned([sentiment |-> Dict({"error"})])
         ELSE Returned([sentiment |-> None, error |-> ErrorText])

\* _check_compliance of either agent.
CheckCompliance(cls, outcome) ==
    IF outcome = "ok"
    THEN Returned([compliance |-> Dict({"review", "checked_at"})])
    ELSE IF cls = "unified"
         THEN Returned([compliance |-> Dict({"error"})])
         ELSE Returned([compliance |-> None, error |-> ErrorText])

\* UnifiedCallCenterAI._get_rag_insights.
GetRagInsights(ml, outcome) ==
    IF ~ml \/ outcome # "ok"
    THEN Returned([rag_insights |-> Dict({"error"})])
    ELSE Returned([rag_insights |->
             Dict({"similar_conversations", "issue_category",
                   "resolution_suggestions", "category_insights", "generated_at"})])

\* The tasks list, in the order the agent appends the coroutines.
TaskList(cls, capabilities, loaded, ml) ==
    (IF "call_summarization" \in capabilities THEN <<"summary">> ELSE <<>>)
    \o (IF "sentiment_analysis" \in capabilities THEN <<"sentiment">> ELSE <<>>)
    \o (IF "compliance_checking" \in capabilities THEN <<"compliance">> ELSE <<>>)
    \o (IF cls = "unified" /\ loaded /\ ml THEN <<"rag_insights">> ELSE <<>>)

RunTask(cls, ml, task, outcome) ==
    CASE task = "summary" -> GenerateSummary(outcome)
      [] task = "sentiment" -> AnalyzeSentiment(cls, outcome)
      [] task = "compliance" -> CheckCompliance(cls, outcome)
      [] task = "rag_insights" -> GetRagInsights(ml, outcome)

\* The merge loop over the gathered results; UnifiedCallCenterAI gathers with
\* return_exceptions=True and skips an exception.
RECURSIVE MergeAnalyses(_, _)
MergeAnalyses(analyses, completed) ==
    IF completed = <<>> THEN analyses
    ELSE MergeAnalyses(IF completed[1].raised THEN analyses
                       ELSE Update(analyses, completed[1].fields),
                       Tail(completed))

\* UnifiedCallCenterAI.analyze_conversation and AWSCallCenterAgent.analyze_call.
\* transcript is None when the call data carries no transcription.
AnalyzeConversation(cls, capabilities, loaded, ml, transcript, outcomes) ==
    IF cls = "unified" /\ ~Truthy(transcript)
    THEN [raised |-> FALSE,
          value |-> [error |-> Str("No transcript found in conversation data")]]
    ELSE LET tasks == IF cls = "rag" /\ transcript = None THEN <<>>
                      ELSE TaskList(cls, capabilities, loaded, ml)
             completed == [i \in 1..Len(tasks) |->
                              RunTask(cls, ml, tasks[i], outcomes[tasks[i]])]
         IN  IF cls = "rag" /\ \E i \in 1..Len(completed) : completed[i].raised
             THEN [raised |-> TRUE, value |-> None]
             ELSE [raised |-> FALSE,
                   value |-> [analyses |-> MergeAnalyses(<<>>, completed)]]

Transcripts == {None, Str(""), Str("Customer: my bill is wrong")}

AnalysisInputs ==
    [capabilities : SUBSET Capabilities, transcript : Transcripts,
     outcomes : [Tasks -> TaskOutcomes]]

\* An agent of either class, its knowledge base loaded or not, and the drawn
\* conversation data and task outcomes.
AnalyzeInit ==
    /\ impl \in Impls
    /\ ml_ready \in BOOLEAN
    /\ kb_path = DefaultKbPath
    /\ conversation_index = None
    /\ conversation_metadata = <<>>
    /\ issue_patterns = <<>>
    /\ resolution_templates = <<>>
    /\ default_factory = FALSE
    /\ knowledge_base_loaded \in BOOLEAN
    /\ disk = [f \in Files |-> Absent]
    /\ input \in AnalysisInputs
    /\ call = NoCall

\* analyze_conversation(conversation_data) / analyze_call(call_data).
AnalyzeConversationCall ==
    /\ call.op = "none"
    /\ LET r == AnalyzeConversation(impl, input.capabilities, knowledge_base_loaded,
                                    ml_ready, input.transcript, input.outcomes)
       IN  call' = [op |-> "analyze_conversation", fault |-> "none",
                    raised |-> r.raised, value |-> r.value]
    /\ UNCHANGED <<kbvars, input>>

SpecAnalyze == AnalyzeInit /\ [][AnalyzeConversationCall]_vars

\* The tasks of the latest analysis that ran, and those of them that failed.
TasksRun ==
    Range(TaskList(impl, input.capabilities, knowledge_base_loaded, ml_ready))

Failed == {t \in TasksRun : input.outcomes[t] = "fault"}

\* The fields a task returns when nothing fails in it.
FieldsOf(task) == DOMAIN RunTask(impl, TRUE, task, "ok").fields

\* C24: in the concurrent fan-out of analyze_conversation, a task that fails
\* contributes no fields to the merged analyses, the fields of every task that
\* succeeded are all present, and one task's failure never aborts the analysis.
C24_FailedTaskContributesNothing ==
    (call.op = "analyze_conversation" /\ Truthy(input.transcript)) =>
        /\ ~call.raised
        /\ "analyses" \in DOMAIN call.value
        /\ DOMAIN call.value.analyses
             = UNION {FieldsOf(t) : t \in TasksRun \ Failed}

\* The rest of C24 without its first part: the analysis returns, and every
\* field of every task that succeeded is in analyses with the value the task
\* returned.
C24_SucceededTasksArePresent ==
    (call.op = "analyze_conversation" /\ Truthy(input.transcript)) =>
        /\ ~call.raised
        /\ \A t \in TasksRun \ Failed :
               LET fields == RunTask(impl, ml_ready, t, "ok").fields
               IN  \A k \in DOMAIN fields :
                       /\ k \in DOMAIN call.value.analyses
                       /\ call.value.analyses[k] = fields[k]

\* ------------------------------------------------- pattern extraction, applied

ExtractContactIds == {"X", "Y", "Z"}

\* What is said in the drawn chat data, and by whom.
ExtractUtterances ==
    { [chat_user_type |-> "customer", chat_text |-> "My internet is broken"],
      [chat_user_type |-> "customer", chat_text |-> "Slow wifi"],
      [chat_user_type |-> "customer", chat_text |-> "Thanks, fixed now!"],
      [chat_user_type |-> "agent", chat_text |-> "Let me check that"],
      [chat_user_type |-> "agent", chat_text |-> "I updated it"] }

\* The contacts are named in the order they first appear in the file.
FirstAppearance(s) ==
    \A i \in 1..Len(s) :
        /\ s[i][1] = "Y" => \E j \in 1..(i - 1) : s[j][1] = "X"
        /\ s[i][1] = "Z" => \E j \in 1..(i - 1) : s[j][1] = "Y"

\* Chat data files of up to MaxBatch records, numbered in file order.
ExtractInputs ==
    { [i \in 1..Len(s) |->
          [contact_id |-> s[i][1], message_number |-> i,
           chat_text |-> s[i][2].chat_text, chat_user_type |-> s[i][2].chat_user_type]] :
        s \in {t \in SeqsUpTo(ExtractContactIds \X ExtractUtterances, MaxBatch) :
                  FirstAppearance(t)} }

\* The grouping and the extraction calls of process_chat_data, on the drawn file.
ApplyExtractPatterns ==
    /\ call.op = "none"
    /\ LET grouped == GroupConversations(impl, input)
       IN  call' = [op |-> "_extract_patterns", fault |-> "none", raised |-> FALSE,
                    conversations |-> grouped.value,
                    value |-> ExtractPatterns(impl, grouped.value)]
    /\ UNCHANGED <<kbvars, input>>

SpecExtract == PureInit(ExtractInputs) /\ [][ApplyExtractPatterns]_vars

\* Where the records of a conversation are in a map: <<category, position>>.
RecordsOf(map, contact_id) ==
    {<<k, i>> \in UNION {{k} \X (1..Len(map[k])) : k \in DOMAIN map} :
        map[k][i].contact_id = contact_id}

\* C25: after pattern extraction every conversation with at least one customer
\* message has exactly one issue-pattern record, under the category its lowercased
\* first customer message classifies to; a conversation without a customer message
\* has none; and the records of a category are in processing order.
C25_OneIssuePatternPerConversation ==
    call.op = "_extract_patterns" =>
        LET convs == call.conversations
            patterns == call.value.issue_patterns
        IN  /\ \A n \in 1..Len(convs) :
                 LET records == RecordsOf(patterns, convs[n].contact_id)
                 IN  IF Len(convs[n].customer_messages) > 0
                     THEN records \subseteq
                            {<<DetectIssueCategory(impl, Lower(convs[n].customer_messages[1])), i>> :
                                i \in 1..MaxBatch}
                          /\ Cardinality(records) = 1
                     ELSE records = {}
            /\ \A k \in DOMAIN patterns : \A i, j \in 1..Len(patterns[k]) :
                 i < j => IndexOf(convs, patterns[k][i].contact_id)
                            < IndexOf(convs, patterns[k][j].contact_id)
            /\ \A k \in DOMAIN patterns : \A i \in 1..Len(patterns[k]) :
                 IndexOf(convs, patterns[k][i].contact_id) > 0

\* Three conversations were processed: two of one category, whose records are
\* in one list, and one without a customer message.
C25_Witness ==
    /\ call.op = "_extract_patterns"
    /\ Len(call.conversations) = 3
    /\ \E k \in DOMAIN call.value.issue_patterns : Len(call.value.issue_patterns[k]) = 2
    /\ \E n \in 1..3 : Len(call.conversations[n].customer_messages) = 0

\* The action indicators a resolution step is specified by.
ActionIndicators == <<"let me", "i will", "i can", "processed", "updated", "fixed">>

\* A conversation has a template exactly when it is resolved and steps, the
\* agent messages holding one of the indicators, is not empty; the template's
\* steps are those messages in order.
TemplateIffSteps(conv, indicators) ==
    LET steps == ResolutionSteps(indicators, conv.agent_messages)
        templates == RecordsOf(call.value.resolution_templates, conv.contact_id)
    IN  /\ templates # {} <=> (conv.resolved /\ Len(steps) > 0)
        /\ Cardinality(templates) <= 1
        /\ \A t \in templates : call.value.resolution_templates[t[1]][t[2]].steps = steps

\* C26: a resolution template exists for a conversation if and only if the
\* conversation is resolved and at least one of its agent messages contains one of
\* "let me", "i will", "i can", "processed", "updated", "fixed"; its steps are
\* exactly those agent messages, in conversation order.
C26_TemplateIffResolvedWithActionStep ==
    call.op = "_extract_patterns" =>
        \A n \in 1..Len(call.conversations) :
            TemplateIffSteps(call.conversations[n], ActionIndicators)

\* The rest of C26 as CallCenterRAG has it: the same statement for the instances
\* of that class.
C26_TemplateIffResolvedWithActionStep_Rag ==
    (call.op = "_extract_patterns" /\ impl = "rag") =>
        \A n \in 1..Len(call.conversations) :
            TemplateIffSteps(call.conversations[n], ActionIndicators)

\* C27: for every conversation that has both an issue-pattern record and a
\* resolution template, the template is stored under the category of the
\* issue-pattern record.
C27_TemplateUnderIssueCategory ==
    call.op = "_extract_patterns" =>
        \A n \in 1..Len(call.conversations) :
            \A p \in RecordsOf(call.value.issue_patterns, call.conversations[n].contact_id) :
                \A t \in RecordsOf(call.value.resolution_templates,
                                   call.conversations[n].contact_id) :
                    t[1] = p[1]

\* The rest of C27 as UnifiedCallCenterAI has it: the same statement for the
\* instances of that class, which classify once for both maps.
C27_TemplateUnderIssueCategory_Unified ==
    (call.op = "_extract_patterns" /\ impl = "unified") =>
        \A n \in 1..Len(call.conversations) :
            \A p \in RecordsOf(call.value.issue_patterns, call.conversations[n].contact_id) :
                \A t \in RecordsOf(call.value.resolution_templates,
                                   call.conversations[n].contact_id) :
                    t[1] = p[1]

\* C28: whenever initialize_knowledge_base returns normally, knowledge_base_loaded
\* is true and the knowledge base is complete: the index is not None and has one
\* row per metadata entry, whether the snapshot was loaded or built and saved,
\* and whether or not the ML components are available.
C28_InitializedMeansComplete ==
    (call.op = "initialize_knowledge_base" /\ ~call.raised) =>
        /\ knowledge_base_loaded
        /\ conversation_index # None
        /\ Len(conversation_index.rows) = Len(conversation_metadata)

\* The rest of C28 without completeness: a normal return sets the flag.
C28_InitializedSetsFlag ==
    (call.op = "initialize_knowledge_base" /\ ~call.raised) => knowledge_base_loaded

\* save_knowledge_base(kb_path) has just returned with nothing failing in it.
JustSaved ==
    call.op = "save_knowledge_base" /\ call.fault = "none" /\ ~call.raised

\* C29: for every file_path, save_knowledge_base writes the snapshot and the
\* index to two different paths, and the index file load_knowledge_base reads is
\* the one the most recent save wrote: after a save the snapshot file holds the
\* snapshot, not the index, and an index file beside it is the index just saved,
\* never one left by an earlier save while the index was unbuilt.
C29_SnapshotAndIndexFilesBelongTogether ==
    JustSaved =>
        /\ IndexPathOf[kb_path] # kb_path
        /\ disk[kb_path] = Pickle(Storage)
        /\ disk[IndexPathOf[kb_path]].kind # "absent" =>
              /\ conversation_index # None
              /\ disk[IndexPathOf[kb_path]] = Faiss(conversation_index)

\* The first part of C29 alone: a save leaves the snapshot in the snapshot file.
C29_SnapshotNotOverwritten ==
    JustSaved => disk[kb_path] = Pickle(Storage)

\* The second part of C29 alone, on a path ending in .pkl: no index file of an
\* earlier save stays beside the snapshot of an unbuilt index.
C29_NoStaleIndexFile ==
    (JustSaved /\ kb_path = DefaultKbPath /\ conversation_index = None) =>
        disk[IndexPathOf[kb_path]].kind = "absent"

\* ------------------------------------------------------------------ rebuilds

\* How many process_chat_data calls of one instance return normally.
MaxRebuilds == 2

\* A new instance; input is the list of the files its process_chat_data calls
\* that returned normally were given, in call order.
ReprocessInit ==
    /\ impl \in Impls
    /\ ml_ready \in (IF impl = "rag" THEN {TRUE} ELSE BOOLEAN)
    /\ kb_path \in (IF impl = "rag" THEN {DefaultKbPath} ELSE Paths)
    /\ InstanceInit
    /\ disk = [f \in Files |-> Absent]
    /\ input = <<>>
    /\ call = NoCall

\* process_chat_data(chat_data_path) on the same instance, once more.
ReprocessChatDataCall ==
    /\ Len(input) < MaxRebuilds
    /\ \E chat_data \in KbDatasets, fault \in ProcessFaults :
        LET r == ProcessChatData(impl, ml_ready, Storage, Ingestion[impl][chat_data], fault)
        IN  /\ Store(r.kb)
            /\ call' = Called("process_chat_data", r.fault, r.raised)
            /\ input' = IF r.raised THEN input ELSE Append(input, chat_data)
            /\ UNCHANGED <<impl, ml_ready, kb_path, knowledge_base_loaded, disk>>

SpecReprocess == ReprocessInit /\ [][ReprocessChatDataCall]_vars

\* issue_patterns, resolution_templates, conversation_metadata and the index.
Artifacts(kb) ==
    <<kb.issue_patterns, kb.resolution_templates, kb.conversation_metadata,
      kb.conversation_index>>

\* What a fresh instance holds after process_chat_data on the file alone, the
\* call meeting the same fault.
FreshlyProcessed(chat_data, fault) ==
    ProcessChatData(impl, ml_ready, FreshStorage, Ingestion[impl][chat_data], fault).kb

\* C30: a rebuild is a full replacement: when process_chat_data returns normally
\* on data D2 after an earlier normal return on data D1, issue_patterns,
\* resolution_templates, conversation_metadata and the index are what a fresh
\* instance holds after process_chat_data on D2 alone.
C30_RebuildIsFullReplacement ==
    (call.op = "process_chat_data" /\ ~call.raised /\ Len(input) >= 2) =>
        Artifacts(Storage) = Artifacts(FreshlyProcessed(input[Len(input)], call.fault))

\* The rest of C30: the same, for the calls in which nothing failed.
C30_RebuildIsFullReplacement_NothingFailed ==
    (call.op = "process_chat_data" /\ ~call.raised /\ call.fault = "none"
        /\ Len(input) >= 2) =>
        Artifacts(Storage) = Artifacts(FreshlyProcessed(input[Len(input)], "none"))

====
